---- MODULE Spec2Model ----
(***************************************************************************)
(* Model of the KNIME LWReg nodes of knime-lwreg/my_extension.py:          *)
(* LWRegInitNode (Initializer), LWRegRegisterNode (Registrar),             *)
(* LWRegQueryNode (Querier) and LWRegRetrieveNode (Retriever), and of the  *)
(* RDKit adapter of org/knime/types/chemistry.py.  The lwreg library,      *)
(* pathlib, RDKit and the KNIME host are the environment: a library call   *)
(* is a nondeterministic choice among the results the call can deliver.    *)
(*                                                                         *)
(* Text is modelled as a sequence of fragments: an f-string                *)
(* f"Failed: {x}" is <<"Failed: ", x>>, the literal "Success" is           *)
(* <<"Success">>.                                                          *)
(***************************************************************************)
EXTENDS Integers, Sequences, FiniteSets, TLC

VARIABLES
    fs,                   \* file system: database file |-> generation (0 = absent)
    flow_variables,       \* exec_context.flow_variables of the workflow run
    history,              \* the Initializer executions so far, oldest first
    default_config,       \* lwreg's process-wide configuration
    pc,                   \* "idle", or "register" inside LWRegRegisterNode.execute
    smiles_data,          \* Registrar: the selected column
    pos,                  \* Registrar: rows of smiles_data already iterated
    registration_results, \* Registrar: the list of result dicts
    register_calls,       \* Registrar: the lwreg.register calls of this execution
    ret,                  \* what the latest configure/execute returned or raised
    retrieve_input,       \* Retriever: the execution to run (parameters and table)
    threads,              \* the database nodes as threads of one process
    lib_call,             \* the latest lwreg call made by a thread
    rdkit,                \* which RDKit modules the process can import
    cache,                \* chemistry.py: the two lru_cache slots and build counts
    chem                  \* chemistry.py: what the latest adapter call did

vars == <<fs, flow_variables, history, default_config, pc, smiles_data, pos,
          registration_results, register_calls, ret, retrieve_input, threads,
          lib_call, rdkit, cache, chem>>

initVars == <<fs, flow_variables, history>>
regVars == <<smiles_data, pos, registration_results, register_calls>>
threadVars == <<threads, lib_call>>
chemVars == <<rdkit, cache, chem>>

-----------------------------------------------------------------------------
(* Bounds *)

MaxInitRuns == 3
MaxRows == 2
MaxMatches == 2

-----------------------------------------------------------------------------
(* pathlib over the paths of the model *)

\* Directories that exist; "." is the working directory.
Dirs == {".", "/", "/data"}

\* Database paths whose parent directory exists.
DbFiles == {"lwreg.sql", "/data/new.db"}

\* Every value of db_path_input the model draws.
DbPathInputs == DbFiles \cup {"", "  ", "/nodir/new.db"}

\* Path(s): the empty string is the working directory.
Path(s) == IF s = "" THEN "." ELSE s

\* Path.parent
Parent(p) ==
    CASE p = "." -> "."
      [] p = "/" -> "/"
      [] p = "/data" -> "/"
      [] p = "lwreg.sql" -> "."
      [] p = "  " -> "."
      [] p = "/data/new.db" -> "/data"
      [] p = "/nodir/new.db" -> "/nodir"
      [] OTHER -> "."

\* Path.exists() in file system f
Exists(f, p) == p \in Dirs \/ (p \in DOMAIN f /\ f[p] > 0)

\* str.strip() == "" for the inputs of the model
IsBlank(s) == s \in {"", "  "}

-----------------------------------------------------------------------------
(* LWRegInitNode *)

StandardizationOperations == {"none", "sanitize", "fragment", "charge", "tautomer"}

WarnExists == <<"The selected database file already exists. Nothing to do.">>
WarnNoPath == <<"A valid path to the database must be provided.">>
WarnNoDir(parent) == <<"Directory ", parent, " does not exist.">>

\* The warnings configure sets, in order.
ConfigureWarnings(f, s) ==
    (IF Exists(f, Path(s)) THEN <<WarnExists>> ELSE <<>>)
    \o (IF IsBlank(s) THEN <<WarnNoPath>>
        ELSE IF ~Exists(f, Parent(Path(s))) THEN <<WarnNoDir(Parent(Path(s)))>>
        ELSE <<>>)

\* configure raises ValueError
ConfigureRaises(f, s) == IsBlank(s) \/ ~Exists(f, Parent(Path(s)))

InitConfigure(s) ==
    /\ pc = "idle"
    /\ ret' = [node |-> "init.configure", path |-> s,
               kind |-> IF ConfigureRaises(fs, s) THEN "raise" ELSE "return",
               warnings |-> ConfigureWarnings(fs, s),
               fs_before |-> fs, initdb_calls |-> <<>>]
    /\ UNCHANGED <<initVars, default_config, pc, regVars, retrieve_input,
                   threadVars, chemVars>>

\* Mutant: the hydrogen flag is taken from the conformer toggle.
InitCustomConfig_CrossedToggles(s, op, remove_Hs, conformer_mode, canonical_orientation) ==
    [dbname |-> s,
     dbtype |-> "sqlite3",
     standardization |->
         <<op>> \o (IF canonical_orientation THEN <<"canonicalize">> ELSE <<>>),
     removeHs |-> IF conformer_mode THEN 1 ELSE 0,
     useTautomerHashv2 |-> 0,
     registerConformers |-> IF conformer_mode THEN 1 ELSE 0,
     numConformerDigits |-> 3,
     lwregSchema |-> ""]

\* init_custom_config
InitCustomConfig(s, op, remove_Hs, conformer_mode, canonical_orientation) ==
    [dbname |-> s,
     dbtype |-> "sqlite3",
     standardization |->
         <<op>> \o (IF canonical_orientation THEN <<"canonicalize">> ELSE <<>>),
     removeHs |-> IF remove_Hs THEN 1 ELSE 0,
     useTautomerHashv2 |-> 0,
     registerConformers |-> IF conformer_mode THEN 1 ELSE 0,
     numConformerDigits |-> 3,
     lwregSchema |-> ""]

\* What utils._initdb can do: build the database, or raise with or without
\* having created the file.
InitdbOutcomes == {"ok", "raise", "raise_file"}

\* The file system after utils._initdb on path s.
InitdbFs(f, s, out) ==
    IF out = "raise" THEN f ELSE [f EXCEPT ![s] = @ + 1]

\* Mutant: execute never takes the early return.
AlreadyExists_Never(f, s) == FALSE

\* Whether execute takes the early return.
AlreadyExists(f, s) == Exists(f, Path(s))

\* flow_variables after exec_context.flow_variables[name] = value
SetFlowVariable(fv, name, value) == (name :> value) @@ fv

InitExecute(s, op, remove_Hs, conformer_mode, canonical_orientation, out) ==
    /\ pc = "idle"
    /\ Len(history) < MaxInitRuns
    /\ ~ConfigureRaises(fs, s)  \* the host executes a node only once configured
    /\ LET existed == AlreadyExists(fs, s)
           config == InitCustomConfig(s, op, remove_Hs, conformer_mode,
                                      canonical_orientation)
           calls == IF existed THEN <<>>
                    ELSE <<[config |-> config, confirm |-> TRUE, outcome |-> out]>>
           raised == ~existed /\ out # "ok"
       IN /\ fs' = IF existed THEN fs ELSE InitdbFs(fs, s, out)
          /\ flow_variables' =
                 IF existed THEN flow_variables
                 ELSE SetFlowVariable(flow_variables, "lwreg_db_path", s)
          /\ history' = Append(history,
                 [path |-> s, existed |-> existed, calls |-> Len(calls),
                  raised |-> raised, gen_before |-> fs[s], gen_after |-> fs'[s]])
          /\ ret' = [node |-> "init.execute", path |-> s,
                     kind |-> IF raised THEN "raise" ELSE "return",
                     existed |-> existed,
                     op |-> op, remove_Hs |-> remove_Hs,
                     conformer_mode |-> conformer_mode,
                     canonical_orientation |-> canonical_orientation,
                     initdb_calls |-> calls]
    /\ UNCHANGED <<default_config, pc, regVars, retrieve_input, threadVars,
                   chemVars>>

-----------------------------------------------------------------------------

\* utils.defaultConfig(), the fields the nodes set
DefaultConfig == [dbname |-> "./testdb.sqlt", dbtype |-> "sqlite3"]

\* The three nodes that set lwreg's configuration and then call lwreg.
DbNodes == {"register", "query", "retrieve"}

\* No adapter call was made yet: both lru_cache slots are empty.
NoCache == [mapping |-> <<>>, ktypes |-> <<>>, builds |-> 0, ktypes_builds |-> 0]

\* No thread runs and no adapter call was made.
Idle ==
    /\ threads = [n \in DbNodes |-> [pc |-> "idle", path |-> "", found |-> "", todo |-> 0]]
    /\ lib_call = [node |-> "none"]
    /\ cache = NoCache
    /\ chem = [op |-> "none"]

\* The process after import of the extension, before any node has run.
Boot ==
    /\ Idle
    /\ flow_variables = <<>>
    /\ history = <<>>
    /\ default_config = DefaultConfig
    /\ pc = "idle"
    /\ smiles_data = <<>>
    /\ pos = 0
    /\ registration_results = <<>>
    /\ register_calls = <<>>
    /\ ret = [node |-> "none", kind |-> "none"]

\* No database file exists yet.
NoFiles == fs = [s \in DbFiles |-> 0]

\* RDKit is installed with all its modules.
AllModules == rdkit = [Chem |-> TRUE, rdSLNParse |-> TRUE]

\* No Retriever execution is waiting.
NoRetrieve == retrieve_input = [pending |-> FALSE]

Init == NoFiles /\ AllModules /\ NoRetrieve /\ Boot

\* The Initializer meets any file system: a database file may be left from an
\* earlier workflow run.
InitializerInit ==
    fs \in [DbFiles -> {0, 1}] /\ AllModules /\ NoRetrieve /\ Boot

InitializerNext ==
    \/ \E s \in DbPathInputs : InitConfigure(s)
    \/ \E s \in DbFiles, op \in StandardizationOperations,
          remove_Hs \in BOOLEAN, conformer_mode \in BOOLEAN,
          canonical_orientation \in BOOLEAN, out \in InitdbOutcomes :
          InitExecute(s, op, remove_Hs, conformer_mode, canonical_orientation, out)

InitializerSpec == InitializerInit /\ [][InitializerNext]_vars

-----------------------------------------------------------------------------
(* Values of table cells and of library results *)

NaN == [t |-> "nan", a |-> 0, b |-> 0]
IntValue(n) == [t |-> "int", a |-> n, b |-> 0]
TupleValue(m, c) == [t |-> "tuple", a |-> m, b |-> c]
FloatValue(n) == [t |-> "float", a |-> n, b |-> 0]

\* A value a double column can hold as a number.
IsNumber(v) == v.t \in {"int", "float"}

\* isinstance(v, tuple)
IsTuple(v) == v.t = "tuple"

\* astype(float) on an integer cell
AsFloat(v) == FloatValue(v.a)

Molregnos == {1, 2}
ConfIds == {3}

\* The input sizes of the model
RowCounts == 0..MaxRows
MatchCounts == 0..MaxMatches

\* The sequences over S of the lengths in N
SeqsOf(S, N) == UNION {[1..n -> S] : n \in N}

-----------------------------------------------------------------------------
(* LWRegRegisterNode *)

\* The table's columns of structure strings and of names.
Smiles == {"CCO", "not-a-smiles"}
Names == {"ethanol"}
ColumnChoices == {"SMILES", "Name"}

\* The input tables: a table is a function from its column names to the
\* columns, all of one length.
ColumnSets == {{"SMILES"}, {"Name"}, {"SMILES", "Name"}}
InputTables ==
    UNION {UNION {{[c \in cols |-> IF c = "SMILES" THEN s ELSE m] :
                      s \in [1..n -> Smiles], m \in [1..n -> Names]} :
                  n \in RowCounts} :
           cols \in ColumnSets}

\* lwreg.RegistrationFailureReasons
RegistrationFailureReasons == {"DUPLICATE", "PARSE_FAILURE", "FILTERED"}
ExceptionMessages == {"unable to open database file", ""}

\* What lwreg.register can do: return a molregno, return (molregno, conf_id)
\* when the database registers conformers, return a failure reason, or raise.
RegisterOutcomes ==
    {[kind |-> "id", value |-> IntValue(n), text |-> ""] : n \in Molregnos}
    \cup {[kind |-> "id", value |-> TupleValue(n, c), text |-> ""] :
              n \in {1}, c \in ConfIds}
    \cup {[kind |-> "reason", value |-> NaN, text |-> r] :
              r \in RegistrationFailureReasons}
    \cup {[kind |-> "raise", value |-> NaN, text |-> m] : m \in ExceptionMessages}

\* Mutant: the node leaves the import-time configuration in place.
NodeConfig_KeepsDefault(db_path_input) == DefaultConfig

\* The configuration the three database nodes pass to lwreg.set_default_config.
NodeConfig(db_path_input) == [dbname |-> db_path_input, dbtype |-> "sqlite3"]

\* The output schema configure returns.
RegisterSchema == <<"SMILES", "Compound ID", "Status">>

\* configure: returns the schema, whatever the input schema holds.
RegisterConfigure(smiles_column, input_columns) ==
    /\ pc = "idle"
    /\ ret' = [node |-> "register.configure", kind |-> "return",
               smiles_column |-> smiles_column, input_columns |-> input_columns,
               schema |-> RegisterSchema]
    /\ UNCHANGED <<initVars, default_config, pc, regVars, retrieve_input,
                   threadVars, chemVars>>

\* execute up to the loop: set the configuration, read the table, look the
\* column up.
RegisterStart(db_path_input, smiles_column, input_table) ==
    /\ pc = "idle"
    /\ default_config' = NodeConfig(db_path_input)
    /\ IF smiles_column \notin DOMAIN input_table
       THEN /\ ret' = [node |-> "register.execute", kind |-> "raise",
                       error |-> "ValueError",
                       text |-> <<"Column '", smiles_column,
                                  "' not found in the input data.">>,
                       smiles_column |-> smiles_column,
                       input_columns |-> DOMAIN input_table,
                       config_before |-> default_config,
                       calls |-> <<>>]
            /\ UNCHANGED <<pc, regVars>>
       ELSE /\ pc' = "register"
            /\ smiles_data' = input_table[smiles_column]
            /\ pos' = 0
            /\ registration_results' = <<>>
            /\ register_calls' = <<>>
            /\ ret' = [node |-> "register.execute", kind |-> "running"]
    /\ UNCHANGED <<initVars, retrieve_input, threadVars, chemVars>>

Row(smiles, compound_id, status) ==
    ("SMILES" :> smiles) @@ ("Compound ID" :> compound_id) @@ ("Status" :> status)

\* Mutant: a returned failure reason is not told from an identifier.
RegistrationResult_NoReasonCheck(smiles, out) ==
    IF out.kind = "raise"
    THEN Row(smiles, NaN, <<"Failed: ", out.text>>)
    ELSE Row(smiles, out.value, <<"Success">>)

\* The dict one iteration appends for the structure string and what
\* lwreg.register did.
RegistrationResult(smiles, out) ==
    IF out.kind = "raise"
    THEN Row(smiles, NaN, <<"Failed: ", out.text>>)
    ELSE IF out.kind = "reason"
    THEN Row(smiles, NaN, <<"Failed: ", out.text>>)
    ELSE Row(smiles, out.value, <<"Success">>)

\* Mutant: the except branch logs the exception and appends nothing.
ResultsAfter_SkipOnError(results, smiles, out) ==
    IF out.kind = "raise" THEN results
    ELSE Append(results, RegistrationResult(smiles, out))

\* registration_results after the iteration's append.
ResultsAfter(results, smiles, out) ==
    Append(results, RegistrationResult(smiles, out))

\* Mutant: an exception leaves the loop.
NextPosition_AbortOnError(p, n, out) == IF out.kind = "raise" THEN n ELSE p + 1

\* The loop position after the iteration at position p of n rows: the
\* iteration ends in an append in every branch, and the loop moves on.
NextPosition(p, n, out) == p + 1

\* One iteration of the loop.
RegisterRow(out) ==
    /\ pc = "register"
    /\ pos < Len(smiles_data)
    /\ LET smiles == smiles_data[pos + 1]
       IN /\ register_calls' = Append(register_calls,
                                      [smiles |-> smiles, outcome |-> out])
          /\ registration_results' = ResultsAfter(registration_results, smiles, out)
          /\ pos' = NextPosition(pos, Len(smiles_data), out)
    /\ UNCHANGED <<initVars, default_config, pc, smiles_data, ret,
                   retrieve_input, threadVars, chemVars>>

\* pd.DataFrame(list of dicts): the columns are the keys of the dicts.
DataFrameFromRecords(records, columns) ==
    [columns |-> IF records = <<>> THEN <<>> ELSE columns, rows |-> records]

\* The loop is over: build the frame and return the table.
RegisterReturn ==
    /\ pc = "register"
    /\ pos >= Len(smiles_data)
    /\ ret' = [node |-> "register.execute", kind |-> "table",
               input |-> smiles_data, calls |-> register_calls,
               table |-> DataFrameFromRecords(registration_results, RegisterSchema)]
    /\ pc' = "idle"
    /\ smiles_data' = <<>>
    /\ pos' = 0
    /\ registration_results' = <<>>
    /\ register_calls' = <<>>
    /\ UNCHANGED <<initVars, default_config, retrieve_input, threadVars,
                   chemVars>>

-----------------------------------------------------------------------------
(* LWRegQueryNode *)

Queries == {"CCO", ""}

\* What lwreg.query can do: return a list of molregnos, return a list of
\* (molregno, conf_id) tuples when the database registers conformers, or raise.
QueryOutcomes ==
    {[kind |-> "list", value |-> l, text |-> ""] :
         l \in SeqsOf({IntValue(n) : n \in Molregnos}, MatchCounts)}
    \cup {[kind |-> "list", value |-> l, text |-> ""] :
              l \in SeqsOf({TupleValue(n, c) : n \in Molregnos, c \in ConfIds},
                           MatchCounts)}
    \cup {[kind |-> "raise", value |-> <<>>, text |-> m] : m \in ExceptionMessages}

QuerySchema == <<"Query", "Molregno", "Conf_ID">>

QueryRow(query, molregno, conf_id) ==
    ("Query" :> query) @@ ("Molregno" :> molregno) @@ ("Conf_ID" :> conf_id)

\* Mutant: the tuple branch is never taken.
HasTuples_Never(query_results) == FALSE

\* The branch taken: query_results and isinstance(query_results[0], tuple)
HasTuples(query_results) == query_results # <<>> /\ IsTuple(query_results[1])

\* results_df: the frame built from the list, with the query inserted first.
QueryResultsFrame(query_input, query_results) ==
    [columns |-> QuerySchema,
     rows |-> IF HasTuples(query_results)
              THEN [i \in 1..Len(query_results) |->
                       QueryRow(query_input,
                                FloatValue(query_results[i].a),
                                FloatValue(query_results[i].b))]
              ELSE [i \in 1..Len(query_results) |->
                       QueryRow(query_input, AsFloat(query_results[i]), NaN)]]

QueryExecute(db_path_input, query_input, out) ==
    /\ pc = "idle"
    /\ default_config' = NodeConfig(db_path_input)
    /\ ret' = IF out.kind = "raise"
              THEN [node |-> "query.execute", kind |-> "raise",
                    error |-> "ValueError",
                    text |-> <<"Failed to query the LWReg database: ", out.text>>]
              ELSE [node |-> "query.execute", kind |-> "table",
                    query |-> query_input, response |-> out.value,
                    table |-> QueryResultsFrame(query_input, out.value)]
    /\ UNCHANGED <<initVars, pc, regVars, retrieve_input, threadVars, chemVars>>

-----------------------------------------------------------------------------
(* LWRegRetrieveNode *)

RetrieveSchema == <<"Molregno", "Conf_ID", "Molecule Data">>

\* The cells of the input table's double columns; NaN is a missing value.
MolregnoCells == {FloatValue(n) : n \in Molregnos} \cup {NaN}
ConfIdCells == {FloatValue(c) : c \in ConfIds} \cup {NaN}

RetrieveColumnSets == {{"Molregno"}, {"Molregno", "Conf_ID"}, {"Conf_ID"}}

\* The input tables of the Retriever.
RetrieveTables ==
    UNION {UNION {{[c \in cols |-> IF c = "Molregno" THEN m ELSE k] :
                      m \in [1..n -> MolregnoCells], k \in [1..n -> ConfIdCells]} :
                  n \in RowCounts} :
           cols \in RetrieveColumnSets}

\* The executions of the Retriever: its parameters and its input table.
RetrieveInputs ==
    [pending : {TRUE}, db_path_input : DbFiles, as_submitted : BOOLEAN,
     table : RetrieveTables]

\* The number of rows of a table.
RowCount(table) == Len(table[CHOOSE c \in DOMAIN table : TRUE])

\* pd.isna
IsNa(v) == v.t = "nan"

\* int(v) raises ValueError on NaN.
IntRaises(v) == v.t = "nan"
ToInt(v) == IntValue(v.a)

\* Mutant: the pair is built whenever the table has a Conf_ID column.
RetrievalKey_AlwaysPair(molregno, conf_id) == TupleValue(molregno.a, conf_id.a)

\* The key of a row of a table with a Conf_ID column.
RetrievalKey(molregno, conf_id) ==
    IF ~IsNa(conf_id) THEN TupleValue(ToInt(molregno).a, ToInt(conf_id).a)
    ELSE ToInt(molregno)

\* The ids built from the input table, or the exception that building them
\* raises: KeyError for a missing Molregno column that is read, ValueError for
\* the int() of a missing Molregno.
BuildIds(table) ==
    LET n == RowCount(table)
        has_conf == "Conf_ID" \in DOMAIN table
        has_mol == "Molregno" \in DOMAIN table
    IN  IF ~has_mol /\ (~has_conf \/ n > 0)
        THEN [kind |-> "raise", error |-> "KeyError", text |-> <<"'Molregno'">>,
              ids |-> <<>>]
        ELSE IF has_mol /\ \E i \in 1..n : IntRaises(table["Molregno"][i])
        THEN [kind |-> "raise", error |-> "ValueError",
              text |-> <<"cannot convert float NaN to integer">>, ids |-> <<>>]
        ELSE [kind |-> "ok", error |-> "", text |-> <<>>,
              ids |-> [i \in 1..n |->
                          IF has_conf
                          THEN RetrievalKey(table["Molregno"][i], table["Conf_ID"][i])
                          ELSE ToInt(table["Molregno"][i])]]

\* The elements of a sequence.
Range(s) == {s[i] : i \in 1..Len(s)}

\* The payload lwreg stores for a key.
MoleculeData(key) == <<"molblock of ", key>>

\* What lwreg.retrieve can do for a list of ids: raise, or return a mapping
\* from matched ids to (data, format); the mapping is a dict and is modelled
\* as the sequence of its items in iteration order, keys distinct.
RetrieveOutcomes(ids) ==
    {[kind |-> "dict", text |-> "",
      items |-> [i \in 1..Len(keys) |->
                    [key |-> keys[i], data |-> MoleculeData(keys[i]), fmt |-> "mol"]]] :
         keys \in {s \in SeqsOf(Range(ids), 0..Cardinality(Range(ids))) :
                       \A i, j \in 1..Len(s) : i # j => s[i] # s[j]}}
    \cup {[kind |-> "raise", text |-> m, items |-> <<>>] : m \in ExceptionMessages}

RetrieveRow(molregno, conf_id, data) ==
    ("Molregno" :> molregno) @@ ("Conf_ID" :> conf_id) @@ ("Molecule Data" :> data)

\* Mutant: one row per requested id that the mapping holds, in request order.
RetrievalRows_PerRequestedId(items, ids) ==
    LET hit(i) == \E k \in 1..Len(items) : items[k].key = ids[i]
        F[i \in 0..Len(ids)] ==
            IF i = 0 THEN <<>>
            ELSE IF hit(i)
                 THEN Append(F[i - 1],
                             RetrieveRow(IntValue(ids[i].a),
                                         IF IsTuple(ids[i]) THEN IntValue(ids[i].b)
                                         ELSE NaN,
                                         MoleculeData(ids[i])))
                 ELSE F[i - 1]
    IN  F[Len(ids)]

\* Mutant: one row per requested id, an empty one for an id without a match.
RetrievalRows_WithPlaceholders(items, ids) ==
    [i \in 1..Len(ids) |->
        RetrieveRow(IntValue(ids[i].a),
                    IF IsTuple(ids[i]) THEN IntValue(ids[i].b) ELSE NaN,
                    IF \E k \in 1..Len(items) : items[k].key = ids[i]
                    THEN MoleculeData(ids[i]) ELSE <<>>)]

\* results: one dict per item of the mapping, in the mapping's order.
RetrievalRows(items, ids) ==
    [i \in 1..Len(items) |->
        IF IsTuple(items[i].key)
        THEN RetrieveRow(IntValue(items[i].key.a), IntValue(items[i].key.b),
                         items[i].data)
        ELSE RetrieveRow(items[i].key, NaN, items[i].data)]

\* The exception raised by the except clause around lwreg.retrieve.
RetrieveFailure(text) ==
    [error |-> "ValueError", text |-> <<"Failed to retrieve molecules: ">> \o text]

RetrieveExecute(out) ==
    /\ pc = "idle"
    /\ retrieve_input.pending
    /\ default_config' = NodeConfig(retrieve_input.db_path_input)
    /\ LET built == BuildIds(retrieve_input.table)
           base == [node |-> "retrieve.execute", input |-> retrieve_input.table,
                    built |-> built.kind]
       IN  IF built.kind = "raise"
           THEN /\ out.kind = "raise"  \* lwreg.retrieve is not reached
                /\ ret' = base @@ [kind |-> "raise", error |-> built.error,
                                   text |-> built.text, retrieve_calls |-> <<>>]
           ELSE /\ out \in RetrieveOutcomes(built.ids)
                /\ LET call == [config |-> "None", ids |-> built.ids,
                                as_submitted |-> retrieve_input.as_submitted]
                   IN ret' = IF out.kind = "raise"
                             THEN base @@ [kind |-> "raise",
                                           error |-> RetrieveFailure(<<out.text>>).error,
                                           text |-> RetrieveFailure(<<out.text>>).text,
                                           retrieve_calls |-> <<call>>]
                             ELSE base @@ [kind |-> "table", ids |-> built.ids,
                                           items |-> out.items,
                                           retrieve_calls |-> <<call>>,
                                           table |-> DataFrameFromRecords(
                                               RetrievalRows(out.items, built.ids),
                                               RetrieveSchema)]
    /\ retrieve_input' = [pending |-> FALSE]
    /\ UNCHANGED <<initVars, pc, regVars, threadVars, chemVars>>

\* configure: returns the schema.
RetrieveConfigure ==
    /\ pc = "idle"
    /\ retrieve_input.pending
    /\ ret' = [node |-> "retrieve.configure", kind |-> "return",
               schema |-> RetrieveSchema]
    /\ UNCHANGED <<initVars, default_config, pc, regVars, retrieve_input,
                   threadVars, chemVars>>

\* Every lwreg.retrieve result for some list of ids of the model.
AllRetrieveOutcomes ==
    UNION {RetrieveOutcomes(BuildIds(t).ids) : t \in RetrieveTables}

RetrieverInit ==
    NoFiles /\ AllModules /\ retrieve_input \in RetrieveInputs /\ Boot

RetrieverNext ==
    \/ RetrieveConfigure
    \/ \E out \in AllRetrieveOutcomes : RetrieveExecute(out)

RetrieverSpec == RetrieverInit /\ [][RetrieverNext]_vars

-----------------------------------------------------------------------------
(* The three database nodes as threads of one process: each execute is the
   assignment of the process-wide configuration followed by its lwreg calls,
   none of which is passed a configuration of its own. *)

\* The number of lwreg calls of one execution: one per input row for the
\* Registrar, one for the Querier, one for the Retriever unless the building
\* of the ids raised.
CallCounts(n) ==
    CASE n = "register" -> RowCounts
      [] n = "query" -> {1}
      [] n = "retrieve" -> {0, 1}

CallOutcomes == {"ok", "raise"}

\* Mutant: every call runs against the configuration of the node that makes it.
ObservedConfig_Own(own, global) == own

\* The configuration a call without a config argument (or with config=None)
\* runs against: the process-wide default at the time of the call.
ObservedConfig(own, global) == global

\* execute up to and including lwreg.set_default_config; found is the path
\* the assignment replaces.
NodeSetConfig(n, db_path_input, k) ==
    /\ threads[n].pc = "idle"
    /\ default_config' = NodeConfig(db_path_input)
    /\ threads' = [threads EXCEPT ![n] = [pc |-> "run", path |-> db_path_input,
                                          found |-> default_config.dbname,
                                          todo |-> k]]
    /\ UNCHANGED <<initVars, pc, regVars, ret, retrieve_input, lib_call, chemVars>>

\* One lwreg.register / lwreg.query / lwreg.retrieve call of the node.
NodeCall(n, outcome) ==
    /\ threads[n].pc = "run"
    /\ threads[n].todo > 0
    /\ lib_call' = [node |-> n, own |-> threads[n].path,
                    found |-> threads[n].found,
                    db |-> ObservedConfig(NodeConfig(threads[n].path),
                                          default_config).dbname,
                    outcome |-> outcome]
    /\ threads' = [threads EXCEPT ![n].todo = @ - 1]
    /\ UNCHANGED <<initVars, default_config, pc, regVars, ret, retrieve_input,
                   chemVars>>

\* execute returns or raises.
NodeReturn(n) ==
    /\ threads[n].pc = "run"
    /\ threads[n].todo = 0
    /\ threads' = [threads EXCEPT ![n] = [pc |-> "idle", path |-> "", found |-> "", todo |-> 0]]
    /\ UNCHANGED <<initVars, default_config, pc, regVars, ret, retrieve_input,
                   lib_call, chemVars>>

\* No other node is executing.
Alone(n) == \A m \in DbNodes \ {n} : threads[m].pc = "idle"

\* The host runs one node at a time.
SeqNext ==
    \/ \E n \in DbNodes, s \in DbFiles :
           \E k \in CallCounts(n) : Alone(n) /\ NodeSetConfig(n, s, k)
    \/ \E n \in DbNodes, outcome \in CallOutcomes : NodeCall(n, outcome)
    \/ \E n \in DbNodes : NodeReturn(n)

SeqSpec == Init /\ [][SeqNext]_vars

\* The host runs nodes concurrently in one process.
ConcNext ==
    \/ \E n \in DbNodes, s \in DbFiles :
           \E k \in CallCounts(n) : NodeSetConfig(n, s, k)
    \/ \E n \in DbNodes, outcome \in CallOutcomes : NodeCall(n, outcome)
    \/ \E n \in DbNodes : NodeReturn(n)

ConcSpec == Init /\ [][ConcNext]_vars

-----------------------------------------------------------------------------
(* RDKit adapter: chemistry.py *)

\* The value classes; all of them are subclasses of str.
ValueClasses ==
    {"CDXMLValue", "CMLAdapterValue", "CMLValue", "CtabValue",
     "HELMAdapterValue", "HELMValue", "InchiAdapterValue", "InchiValue",
     "MolAdapterValue", "MolValue", "Mol2AdapterValue", "Mol2Value",
     "RxnAdapterValue", "RxnValue", "SdfAdapterValue", "SdfValue", "SlnValue",
     "SmartsAdapterValue", "SmartsValue", "SmilesAdapterValue", "SmilesValue"}

\* Other kinds a value of a column can have: a plain str, a subclass of a
\* value class, a float (NaN), a toolkit molecule, a subclass of it.
OtherStrKinds == {"str", "SubclassOfSmilesValue"}
ToolkitKinds == {"Chem.Mol", "Chem.RWMol"}

Texts == {"CCO", "not a molecule"}

None == [kind |-> "NoneType", text |-> ""]

\* The values _to_rdkit_scalar can be given; toolkit objects exist only where
\* the toolkit does.
ChemValues(mods) ==
    {None, [kind |-> "float", text |-> "nan"]}
    \cup [kind : ValueClasses \cup OtherStrKinds, text : Texts]
    \cup (IF mods.Chem THEN [kind : ToolkitKinds, text : {"<rdkit mol>"}] ELSE {})

\* isinstance(val, str)
IsInstanceStr(val) == val.kind \in ValueClasses \cup OtherStrKinds

\* str(val): the plain str with the characters of val.
Str(val) == [kind |-> "str", text |-> val.text]

\* The keyword arguments of a conversion.
KwargSets == {<<>>, <<"sanitize=False">>}

\* The entries of the mapping that need only rdkit.Chem.
ParserOf(kind) ==
    CASE kind = "CtabValue" -> "Chem.MolFromMolBlock"
      [] kind \in {"HELMAdapterValue", "HELMValue"} -> "Chem.MolFromHELM"
      [] kind \in {"InchiAdapterValue", "InchiValue"} -> "Chem.MolFromInchi"
      [] kind \in {"MolAdapterValue", "MolValue"} -> "Chem.MolFromMolBlock"
      [] kind \in {"Mol2AdapterValue", "Mol2Value"} -> "Chem.MolFromMol2Block"
      [] kind \in {"SdfAdapterValue", "SdfValue"} -> "Chem.MolFromMolBlock"
      [] kind \in {"SmartsAdapterValue", "SmartsValue"} -> "Chem.MolFromSmarts"
      [] kind \in {"SmilesAdapterValue", "SmilesValue"} -> "Chem.MolFromSmiles"
      [] kind = "Chem.Mol" -> "lambda x, **kwargs: x"
      [] kind = "SlnValue" -> "rdSLNParse.MolFromSLN"

ChemKinds ==
    {"CtabValue", "HELMAdapterValue", "HELMValue", "InchiAdapterValue",
     "InchiValue", "MolAdapterValue", "MolValue", "Mol2AdapterValue",
     "Mol2Value", "SdfAdapterValue", "SdfValue", "SmartsAdapterValue",
     "SmartsValue", "SmilesAdapterValue", "SmilesValue", "Chem.Mol"}

\* The mapping get_knime_to_rdkit_mol builds: SLN only where its parser imports.
KnimeToRdkitMol(mods) ==
    [kind \in ChemKinds \cup (IF mods.rdSLNParse THEN {"SlnValue"} ELSE {}) |->
        ParserOf(kind)]

\* The installations of the toolkit.
Installations ==
    {[Chem |-> TRUE, rdSLNParse |-> TRUE], [Chem |-> TRUE, rdSLNParse |-> FALSE],
     [Chem |-> FALSE, rdSLNParse |-> FALSE]}

NoTable == [id |-> 0, table |-> <<>>]

ImportErrorText ==
    <<"RDKit is not installed. Please install it to use chemistry types in python.">>

\* Mutant: the cache never answers.
CacheLookup_Miss(entries) == <<>>

\* functools.lru_cache(maxsize=1) of a function without arguments: the one
\* entry if there is one.
CacheLookup(entries) == entries

\* get_knime_to_rdkit_mol(): the cached mapping, or the mapping built and
\* cached now, or ImportError (an exception is not cached). id tells the
\* constructions apart.
GetKnimeToRdkitMol(c, mods) ==
    LET cached == CacheLookup(c.mapping)
    IN IF cached # <<>>
       THEN [kind |-> "return", hit |-> TRUE, value |-> cached[1], cache |-> c]
       ELSE IF ~mods.Chem
       THEN [kind |-> "raise", hit |-> FALSE, value |-> NoTable, cache |-> c]
       ELSE LET built == [id |-> c.builds + 1, table |-> KnimeToRdkitMol(mods)]
            IN [kind |-> "return", hit |-> FALSE, value |-> built,
                cache |-> [c EXCEPT !.mapping = <<built>>, !.builds = @ + 1]]

\* knext.logical(cls)
Logical(kind) == <<"logical", kind>>

\* The types of the columns is_molecule is asked about.
ColumnKtypes ==
    {<<"string">>, <<"double">>}
    \cup {Logical(k) : k \in {"SmilesValue", "SlnValue", "RxnValue", "Chem.Mol"}}

\* get_molecule_ktypes(): cached in the same way, built from the mapping.
GetMoleculeKtypes(c, mods) ==
    LET cached == CacheLookup(c.ktypes)
    IN IF cached # <<>>
       THEN [kind |-> "return", hit |-> TRUE, value |-> cached[1], cache |-> c]
       ELSE LET m == GetKnimeToRdkitMol(c, mods)
            IN IF m.kind = "raise"
               THEN [kind |-> "raise", hit |-> FALSE,
                     value |-> [id |-> 0, ktypes |-> {}], cache |-> m.cache]
               ELSE LET built == [id |-> m.value.id,
                                  ktypes |-> {Logical(k) : k \in DOMAIN m.value.table}]
                    IN [kind |-> "return", hit |-> FALSE, value |-> built,
                        cache |-> [m.cache EXCEPT !.ktypes = <<built>>,
                                                  !.ktypes_builds = @ + 1]]

\* A direct call of get_knime_to_rdkit_mol.
GetMappingCall ==
    LET m == GetKnimeToRdkitMol(cache, rdkit)
    IN /\ cache' = m.cache
       /\ chem' = [op |-> "get_knime_to_rdkit_mol", kind |-> m.kind,
                   error |-> IF m.kind = "raise" THEN "ImportError" ELSE "",
                   hit |-> m.hit, mapping |-> m.value]
       /\ UNCHANGED <<initVars, default_config, pc, regVars, ret, retrieve_input,
                      threadVars, rdkit>>

\* is_molecule(col)
IsMolecule(ktype) ==
    LET k == GetMoleculeKtypes(cache, rdkit)
    IN /\ cache' = k.cache
       /\ chem' = [op |-> "is_molecule", kind |-> k.kind,
                   error |-> IF k.kind = "raise" THEN "ImportError" ELSE "",
                   hit |-> k.hit, ktype |-> ktype,
                   mapping |-> [id |-> k.value.id, table |-> <<>>],
                   value |-> (k.kind = "return" /\ ktype \in k.value.ktypes)]
       /\ UNCHANGED <<initVars, default_config, pc, regVars, ret, retrieve_input,
                      threadVars, rdkit>>

\* What a parser does with its argument: the passthrough returns it, an RDKit
\* parser returns a molecule or None, or raises (e.g. on an unknown option).
ParserResults(fn, arg) ==
    IF fn = "lambda x, **kwargs: x"
    THEN {[kind |-> "return", error |-> "", value |-> arg]}
    ELSE {[kind |-> "return", error |-> "",
           value |-> [kind |-> "Chem.Mol", text |-> "<rdkit mol>"]],
          [kind |-> "return", error |-> "", value |-> None],
          [kind |-> "raise", error |-> "ArgumentError", value |-> None]}

AllParserResults ==
    UNION {ParserResults(fn, arg) :
              fn \in {ParserOf(k) : k \in ChemKinds \cup {"SlnValue"}},
              arg \in ChemValues([Chem |-> TRUE, rdSLNParse |-> TRUE])}

\* Mutant: the value is handed to the parser as it is.
ParserArgument_Uncoerced(val) == val

\* arg = str(val) if isinstance(val, str) else val
ParserArgument(val) == IF IsInstanceStr(val) THEN Str(val) ELSE val

UnsupportedText(val) ==
    <<"Unsupported molecule value ", val, " of type ", val.kind>>

\* _to_rdkit_scalar(val, **kwargs); to_rdkit_series and to_rdkit_iter apply it
\* to one element after the other.
ToRdkitScalar(val, kwargs, out) ==
    LET m == GetKnimeToRdkitMol(cache, rdkit)
        call == [val |-> val, kwargs |-> kwargs]
    IN /\ val \in ChemValues(rdkit)
       /\ IF val = None
          THEN /\ out = [kind |-> "return", error |-> "", value |-> None]
               /\ cache' = cache
               /\ chem' = [op |-> "_to_rdkit_scalar", call |-> call,
                           kind |-> "return", error |-> "", value |-> None,
                           mapping |-> NoTable, parser_calls |-> <<>>]
          ELSE IF m.kind = "raise"
          THEN /\ out = [kind |-> "return", error |-> "", value |-> None]
               /\ cache' = m.cache
               /\ chem' = [op |-> "_to_rdkit_scalar", call |-> call,
                           kind |-> "raise", error |-> "ImportError",
                           text |-> ImportErrorText,
                           mapping |-> NoTable, parser_calls |-> <<>>]
          ELSE IF val.kind \in DOMAIN m.value.table
          THEN LET fn == m.value.table[val.kind]
                   arg == ParserArgument(val)
               IN /\ out \in ParserResults(fn, arg)
                  /\ cache' = m.cache
                  /\ chem' = [op |-> "_to_rdkit_scalar", call |-> call,
                              kind |-> out.kind, error |-> out.error,
                              value |-> out.value, mapping |-> m.value,
                              parser_calls |-> <<[fn |-> fn, arg |-> arg,
                                                  kwargs |-> kwargs]>>]
          ELSE /\ out = [kind |-> "return", error |-> "", value |-> None]
               /\ cache' = m.cache
               /\ chem' = [op |-> "_to_rdkit_scalar", call |-> call,
                           kind |-> "raise", error |-> "TypeError",
                           text |-> UnsupportedText(val),
                           mapping |-> m.value, parser_calls |-> <<>>]
       /\ UNCHANGED <<initVars, default_config, pc, regVars, ret, retrieve_input,
                      threadVars, rdkit>>

ChemInit == NoFiles /\ NoRetrieve /\ rdkit \in Installations /\ Boot

ChemNext ==
    \/ GetMappingCall
    \/ \E ktype \in ColumnKtypes : IsMolecule(ktype)
    \/ \E val \in ChemValues([Chem |-> TRUE, rdSLNParse |-> TRUE]),
          kwargs \in KwargSets, out \in AllParserResults :
           ToRdkitScalar(val, kwargs, out)

ChemSpec == ChemInit /\ [][ChemNext]_vars

-----------------------------------------------------------------------------

Next ==
    \/ \E c \in ColumnChoices, cols \in ColumnSets : RegisterConfigure(c, cols)
    \/ \E s \in DbFiles, c \in ColumnChoices, t \in InputTables : RegisterStart(s, c, t)
    \/ \E out \in RegisterOutcomes : RegisterRow(out)
    \/ RegisterReturn
    \/ \E s \in DbFiles, q \in Queries, out \in QueryOutcomes : QueryExecute(s, q, out)

Spec == Init /\ [][Next]_vars

\* execute is straight-line code around blocking calls: once in the loop, the
\* next iteration or the return is eventually taken.
FairSpec ==
    /\ Spec
    /\ WF_vars(\E out \in RegisterOutcomes : RegisterRow(out))
    /\ WF_vars(RegisterReturn)

-----------------------------------------------------------------------------
(* Registrar properties *)

IsSuccess(status) == status = <<"Success">>
StartsWithFailed(status) == Len(status) >= 1 /\ status[1] = "Failed: "

\* The Registrar returned its table.
RegisterReturned == ret.node = "register.execute" /\ ret.kind = "table"

\* C1: the Registrar's output has one row per input row, in input order, and
\* the first field of each row is that row's structure string, whatever the
\* library did for the row.
C1_OneRowPerInputRowInOrder ==
    /\ pc = "register" =>
           /\ Len(registration_results) = pos
           /\ \A i \in 1..Len(registration_results) :
                  i <= Len(smiles_data)
                  /\ registration_results[i]["SMILES"] = smiles_data[i]
    /\ RegisterReturned =>
           /\ Len(ret.table.rows) = Len(ret.input)
           /\ \A i \in 1..Len(ret.table.rows) :
                  ret.table.rows[i][ret.table.columns[1]] = ret.input[i]

\* A returned table of two rows, the first of which met an exception.
C1_Witness ==
    /\ RegisterReturned
    /\ Len(ret.input) >= 2
    /\ ret.input[1] # ret.input[2]
    /\ ret.calls[1].outcome.kind = "raise"
    /\ ret.calls[2].outcome.kind = "reason"

\* The status the claim gives for what the library did.
StatusMatches(row, out) ==
    /\ out.kind = "id" => row["Status"] = <<"Success">>
    /\ out.kind = "reason" => row["Status"] = <<"Failed: ", out.text>>
    /\ out.kind = "raise" => row["Status"] = <<"Failed: ", out.text>>
    /\ IsSuccess(row["Status"]) # StartsWithFailed(row["Status"])

\* C2: each output row has exactly one status, "Success" for a returned
\* identifier, "Failed: <reason name>" for a returned failure reason and
\* "Failed: <message>" for an exception, and never both or neither.
C2_StatusFollowsOutcome ==
    /\ pc = "register" =>
           \A i \in 1..Len(registration_results) :
               i <= Len(register_calls)
               /\ StatusMatches(registration_results[i], register_calls[i].outcome)
    /\ RegisterReturned =>
           \A i \in 1..Len(ret.table.rows) :
               i <= Len(ret.calls)
               /\ StatusMatches(ret.table.rows[i], ret.calls[i].outcome)

\* A returned table with a success, a failure reason and an exception.
C2_Witness ==
    /\ RegisterReturned
    /\ \E i, j \in 1..Len(ret.calls) :
           /\ ret.calls[i].outcome.kind = "id"
           /\ ret.calls[j].outcome.kind = "reason"
           /\ ret.calls[j].outcome.text = "PARSE_FAILURE"
    /\ \E i \in 1..Len(ret.table.rows) :
           ret.table.rows[i]["Status"] = <<"Failed: ", "PARSE_FAILURE">>

\* C3: in every output table a "Success" row holds a number in Compound ID and
\* a "Failed:" row holds NaN, for every value lwreg.register can return.
C3_SuccessHasNumberFailedHasNaN ==
    RegisterReturned =>
        \A i \in 1..Len(ret.table.rows) :
            LET row == ret.table.rows[i]
            IN /\ IsSuccess(row["Status"]) => IsNumber(row["Compound ID"])
               /\ StartsWithFailed(row["Status"]) => row["Compound ID"] = NaN

\* The calls made so far are the rows iterated so far, once each, in order.
CallsFollowRows(calls, rows, n) ==
    /\ Len(calls) = n
    /\ n <= Len(rows)
    /\ \A i \in 1..Len(calls) : calls[i].smiles = rows[i]

\* C4: an exception of lwreg.register for a row does not end the loop: the
\* call is made exactly once per row, in row order, also for the rows after
\* the exception, and execute then returns its table.
C4_RowIsolation ==
    /\ [](pc = "register" => CallsFollowRows(register_calls, smiles_data, pos))
    /\ [](RegisterReturned => CallsFollowRows(ret.calls, ret.input, Len(ret.input)))
    /\ ((pc = "register") ~> (pc = "idle" /\ RegisterReturned))

\* A returned table whose first row raised and whose later row was still
\* registered.
C4_Witness ==
    /\ RegisterReturned
    /\ Len(ret.calls) >= 2
    /\ ret.calls[1].outcome.kind = "raise"
    /\ ret.calls[2].outcome.kind = "id"
    /\ IsSuccess(ret.table.rows[2]["Status"])

\* C5: with the selected column absent from the input table the Registrar
\* fails at configure, before execute, makes no registration call and leaves
\* the process-wide configuration as it was.
C5_MissingColumnFailsBeforeAnyLibraryCall ==
    /\ (ret.node = "register.configure" /\ ret.smiles_column \notin ret.input_columns)
           => ret.kind = "raise"
    /\ (ret.node = "register.execute" /\ ret.kind = "raise")
           => (ret.calls = <<>> /\ default_config = ret.config_before)

-----------------------------------------------------------------------------
(* Querier properties *)

QueryReturned == ret.node = "query.execute" /\ ret.kind = "table"

\* C10: the Querier's table has one row per match in the order of the
\* response, the query string first; for a response of (id, sub-id) tuples
\* both numeric columns hold the tuple's numbers, for a response of bare
\* ids, or an empty one, Conf_ID is NaN in every row.
C10_QueryNormalization ==
    QueryReturned =>
        /\ Len(ret.table.rows) = Len(ret.response)
        /\ ret.table.columns[1] = "Query"
        /\ \A i \in 1..Len(ret.response) :
               LET row == ret.table.rows[i]
                   match == ret.response[i]
               IN /\ row["Query"] = ret.query
                  /\ row["Molregno"] = FloatValue(match.a)
                  /\ match.t = "tuple" => row["Conf_ID"] = FloatValue(match.b)
                  /\ match.t = "int" => row["Conf_ID"] = NaN

\* A response of two tuples that is not in ascending order.
C10_Witness ==
    /\ QueryReturned
    /\ Len(ret.response) = 2
    /\ ret.response[1] = TupleValue(2, 3)
    /\ ret.response[2] = TupleValue(1, 3)
    /\ ret.table.rows[1]["Conf_ID"] = FloatValue(3)

-----------------------------------------------------------------------------
(* Retriever properties *)

RetrieveReturned == ret.node = "retrieve.execute" /\ ret.kind = "table"

\* C11: an exception during the Querier's search or during the Retriever's
\* retrieval, the building of the keys and the flattening included, reaches
\* the caller as the node's descriptive ValueError, and no table is returned.
C11_FailuresAreWrapped ==
    /\ (ret.node = "query.execute" /\ ret.kind = "raise") =>
           /\ ret.error = "ValueError"
           /\ ret.text[1] = "Failed to query the LWReg database: "
           /\ "table" \notin DOMAIN ret
    /\ (ret.node = "retrieve.execute" /\ ret.kind = "raise") =>
           /\ ret.error = "ValueError"
           /\ ret.text[1] = "Failed to retrieve molecules: "
           /\ "table" \notin DOMAIN ret

\* The ids passed to lwreg.retrieve by the latest Retriever execution.
RequestedIds == ret.retrieve_calls[1].ids

\* C12: the Retriever builds one key per input row, in row order; the key is
\* the pair (identifier, sub-identifier) exactly when the table has a Conf_ID
\* column and the row's Conf_ID is not missing, and the bare identifier
\* otherwise.
C12_OneKeyPerRow ==
    (ret.node = "retrieve.execute" /\ ret.built = "ok") =>
        /\ Len(ret.retrieve_calls) = 1
        /\ Len(RequestedIds) = RowCount(ret.input)
        /\ \A i \in 1..Len(RequestedIds) :
               LET key == RequestedIds[i]
                   paired == /\ "Conf_ID" \in DOMAIN ret.input
                             /\ ret.input["Conf_ID"][i] # NaN
               IN /\ (key.t = "tuple") <=> paired
                  /\ (key.t = "int") <=> ~paired
                  /\ key.a = ret.input["Molregno"][i].a
                  /\ paired => key.b = ret.input["Conf_ID"][i].a

\* A table with a Conf_ID column, one row with a sub-identifier and one
\* without.
C12_Witness ==
    /\ ret.node = "retrieve.execute" /\ ret.built = "ok"
    /\ Len(RequestedIds) = 2
    /\ RequestedIds[1] = IntValue(1)
    /\ RequestedIds[2] = TupleValue(2, 3)
    /\ "Conf_ID" \in DOMAIN ret.input

\* The key an output row stands for.
RowKey(row) ==
    IF row["Conf_ID"] = NaN THEN row["Molregno"]
    ELSE TupleValue(row["Molregno"].a, row["Conf_ID"].a)

RowKeys(rows) == {RowKey(rows[i]) : i \in 1..Len(rows)}

\* C13: the output has exactly one row per entry of the returned mapping,
\* holding the entry's identifier, sub-identifier or NaN, and payload; a
\* requested key without a match has no row, no key has two rows, and every
\* row's key was requested.
C13_OneRowPerMappingEntry ==
    RetrieveReturned =>
        LET rows == ret.table.rows
            entries == {<<ret.items[k].key, ret.items[k].data>> :
                           k \in 1..Len(ret.items)}
        IN /\ Len(rows) = Len(ret.items)
           /\ {<<RowKey(rows[i]), rows[i]["Molecule Data"]>> : i \in 1..Len(rows)}
                  = entries
           /\ \A i, j \in 1..Len(rows) : RowKey(rows[i]) = RowKey(rows[j]) => i = j
           /\ RowKeys(rows) \subseteq Range(ret.ids)
           /\ \A key \in Range(ret.ids) :
                  (\A k \in 1..Len(ret.items) : ret.items[k].key # key)
                      => key \notin RowKeys(rows)

\* The same key requested by two rows and matched, another key unmatched.
C13_Witness ==
    /\ RetrieveReturned
    /\ Len(ret.ids) = 2
    /\ ret.ids[1] = ret.ids[2]
    /\ Len(ret.table.rows) = 1

\* The position of the first input row that requests a key.
FirstRequest(ids, key) ==
    CHOOSE i \in 1..Len(ids) :
        ids[i] = key /\ \A k \in 1..(i - 1) : ids[k] # key

\* C14 as stated: the output rows are in the order in which their keys appear
\* in the input table, whatever the iteration order of the mapping.
C14_OutputFollowsInputOrder ==
    RetrieveReturned =>
        \A i, j \in 1..Len(ret.table.rows) :
            i < j => FirstRequest(ret.ids, RowKey(ret.table.rows[i]))
                         < FirstRequest(ret.ids, RowKey(ret.table.rows[j]))

\* C14 as amended: the output rows are in the iteration order of the returned
\* mapping, row i standing for the mapping's i-th entry.
C14_OutputFollowsMappingOrder ==
    RetrieveReturned =>
        /\ Len(ret.table.rows) = Len(ret.items)
        /\ \A i \in 1..Len(ret.table.rows) :
               RowKey(ret.table.rows[i]) = ret.items[i].key

\* A mapping that iterates against the order of the request.
C14_Witness ==
    /\ RetrieveReturned
    /\ Len(ret.ids) = 2 /\ Len(ret.items) = 2
    /\ ret.items[1].key = ret.ids[2]
    /\ ret.items[2].key = ret.ids[1]
    /\ ret.ids[1] # ret.ids[2]
    /\ RowKey(ret.table.rows[1]) = ret.ids[2]

-----------------------------------------------------------------------------
(* Process-wide configuration properties *)

\* C16: the configuration is an unlocked global: a call of a node runs against
\* whatever path the global holds when the call is made, also the path
\* another node wrote after this node's own reconfiguration, and the call's
\* outcome does not depend on that.
C16_CallRunsAgainstTheGlobal ==
    [][\A n \in DbNodes :
          threads'[n].todo = threads[n].todo - 1 =>
              /\ lib_call'.node = n
              /\ lib_call'.own = threads[n].path
              /\ lib_call'.db = default_config.dbname
              /\ default_config' = default_config]_vars

\* A call that ran against another node's database and returned normally.
C16_Witness ==
    /\ lib_call.node # "none"
    /\ lib_call.db # lib_call.own
    /\ lib_call.db \in DbFiles
    /\ lib_call.outcome = "ok"
    /\ \E m \in DbNodes \ {lib_call.node} :
           threads[m].pc = "run" /\ threads[m].path = lib_call.db

\* C17: when executions do not overlap, a node that is past its
\* reconfiguration finds its own {path, sqlite3} in the global, and every
\* library call runs against the calling node's own path.
C17_SequentialCallsObserveOwnPath ==
    /\ \A n \in DbNodes :
           threads[n].pc = "run" =>
               default_config = [dbname |-> threads[n].path, dbtype |-> "sqlite3"]
    /\ lib_call.node # "none" => lib_call.db = lib_call.own

\* A call of a node that ran after another node had left a different path in
\* the global.
C17_Witness ==
    /\ lib_call.node = "query"
    /\ lib_call.found = "/data/new.db"
    /\ lib_call.own = "lwreg.sql"
    /\ lib_call.db = "lwreg.sql"
    /\ Alone("query")

-----------------------------------------------------------------------------
(* RDKit adapter properties *)

ScalarCalled == chem.op = "_to_rdkit_scalar"

\* A missing value gives a missing result and no parser runs.
MissingOutcome ==
    /\ chem.call.val = None
    /\ chem.kind = "return" /\ chem.value = None
    /\ chem.parser_calls = <<>>

\* A value whose exact kind is in the table goes to that kind's parser once:
\* as its text for a text-backed kind, as the object for a toolkit molecule,
\* with the options of the call; the parser's result is the result.
ParsedOutcome(table) ==
    /\ chem.call.val # None
    /\ chem.call.val.kind \in DOMAIN table
    /\ Len(chem.parser_calls) = 1
    /\ chem.parser_calls[1].fn = table[chem.call.val.kind]
    /\ chem.parser_calls[1].kwargs = chem.call.kwargs
    /\ chem.parser_calls[1].arg
           = IF chem.call.val.kind \in ToolkitKinds THEN chem.call.val
             ELSE [kind |-> "str", text |-> chem.call.val.text]
    /\ chem.kind = "return" =>
           chem.value \in {None, [kind |-> "Chem.Mol", text |-> "<rdkit mol>"]}
    /\ (chem.kind = "return" /\ chem.call.val.kind = "Chem.Mol") =>
           chem.value = chem.call.val
    /\ chem.kind = "raise" => chem.error \notin {"TypeError", "ImportError"}

\* A value of any other kind fails with a TypeError that names the value and
\* its kind, and no parser runs.
UnsupportedOutcome(table) ==
    /\ chem.call.val # None
    /\ chem.call.val.kind \notin DOMAIN table
    /\ chem.kind = "raise" /\ chem.error = "TypeError"
    /\ chem.text = <<"Unsupported molecule value ", chem.call.val, " of type ",
                     chem.call.val.kind>>
    /\ chem.parser_calls = <<>>

\* The table of the process, empty while none has been built.
CurrentTable == IF cache.mapping = <<>> THEN <<>> ELSE cache.mapping[1].table

\* C15 as stated: _to_rdkit_scalar has exactly these three outcomes, and the
\* input decides which.
C15_ThreeOutcomes ==
    ScalarCalled =>
        \/ MissingOutcome
        \/ ParsedOutcome(CurrentTable)
        \/ UnsupportedOutcome(CurrentTable)

\* C15 as amended: with the toolkit installed the three outcomes are the only
\* ones and the input decides which; without it a missing value still gives a
\* missing result, and every other value fails with the ImportError of the
\* table's construction, no parser being run.
C15_OutcomesOfScalarConversion ==
    ScalarCalled =>
        \/ MissingOutcome
        \/ /\ rdkit.Chem
           /\ ParsedOutcome(KnimeToRdkitMol(rdkit))
        \/ /\ rdkit.Chem
           /\ UnsupportedOutcome(KnimeToRdkitMol(rdkit))
        \/ /\ ~rdkit.Chem
           /\ chem.call.val # None
           /\ chem.kind = "raise" /\ chem.error = "ImportError"
           /\ chem.parser_calls = <<>>

\* A text-backed value of a supported kind converted where the toolkit is
\* missing.
C15_Witness ==
    /\ ScalarCalled
    /\ ~rdkit.Chem
    /\ chem.call.val.kind = "SmilesValue"
    /\ chem.error = "ImportError"

\* The calls that use the mapping.
UsesMapping ==
    \/ chem.op \in {"get_knime_to_rdkit_mol", "is_molecule"}
    \/ ScalarCalled /\ chem.call.val # None

\* C18: the mapping is built at most once in a process, not before the first
\* call that needs it; every call that returns works with that one table;
\* where the toolkit is missing no table is ever built and every call that
\* needs it fails with ImportError.
C18_MappingBuiltOnceAndCached ==
    /\ cache.builds <= 1
    /\ cache.ktypes_builds <= 1
    /\ (cache.builds = 0) <=> (cache.mapping = <<>>)
    /\ chem.op = "none" => cache.builds = 0
    /\ cache.mapping # <<>> =>
           cache.mapping[1] = [id |-> 1, table |-> KnimeToRdkitMol(rdkit)]
    /\ (UsesMapping /\ rdkit.Chem) =>
           /\ chem.error # "ImportError"
           /\ chem.mapping.id = 1
           /\ cache.builds = 1
    /\ chem.op = "get_knime_to_rdkit_mol" /\ rdkit.Chem =>
           chem.kind = "return" /\ chem.mapping = cache.mapping[1]
    /\ (UsesMapping /\ ~rdkit.Chem) =>
           /\ chem.kind = "raise" /\ chem.error = "ImportError"
           /\ cache.builds = 0

\* A direct call answered from the cache.
C18_Witness ==
    /\ chem.op = "get_knime_to_rdkit_mol"
    /\ chem.kind = "return"
    /\ chem.hit
    /\ chem.mapping.id = 1
    /\ cache.builds = 1
    /\ cache.ktypes_builds = 1

-----------------------------------------------------------------------------
(* Initializer properties *)

\* The latest Initializer execution.
LastRun == history[Len(history)]

\* The database file named by s exists.
TargetFileExists(f, s) == s \in DOMAIN f /\ f[s] > 0

\* C6: Initializer configure raises exactly when the path is blank or its
\* parent directory is missing, warns "already exists" exactly when the target
\* file exists, and has no side effect.
C6_ConfigureContract ==
    ret.node = "init.configure" =>
        /\ (ret.kind = "raise") <=>
               (IsBlank(ret.path) \/ ~Exists(fs, Parent(Path(ret.path))))
        /\ (\E i \in 1..Len(ret.warnings) : ret.warnings[i] = WarnExists) <=>
               TargetFileExists(fs, ret.path)
        /\ fs = ret.fs_before
        /\ ret.initdb_calls = <<>>

\* Run i is the first execution on its path, and found the file absent.
FirstOnAbsent(i) ==
    /\ history[i].gen_before = 0
    /\ \A k \in 1..(i - 1) : history[k].path # history[i].path

\* Run i made no creation call, left the file alone and returned.
IsNoOp(i) ==
    /\ history[i].calls = 0
    /\ ~history[i].raised
    /\ history[i].gen_after = history[i].gen_before

\* C7 as stated: an execution that finds the file makes no creation call,
\* leaves the file alone and returns; and on a path that starts absent only
\* the first execution makes the creation call, later ones neither create
\* nor raise.
C7_CreationByFirstExecutionOnly ==
    /\ \A i \in 1..Len(history) : history[i].gen_before > 0 => IsNoOp(i)
    /\ \A i, j \in 1..Len(history) :
           (i < j /\ FirstOnAbsent(i) /\ history[j].path = history[i].path)
               => IsNoOp(j)

\* C7 as amended: an execution that finds the file makes no creation call,
\* leaves the file alone and returns; an execution that finds it absent makes
\* exactly one creation call, also after an earlier call that raised; every
\* execution after one that left the file in place is a no-op, and at most
\* one creation call on a path returns.
C7_IdempotentOnceCreated ==
    /\ \A i \in 1..Len(history) :
           /\ history[i].gen_before > 0 => IsNoOp(i)
           /\ history[i].gen_before = 0 => history[i].calls = 1
    /\ \A i, j \in 1..Len(history) :
           (i < j /\ history[j].path = history[i].path /\ history[i].gen_after > 0)
               => (IsNoOp(j) /\ history[j].gen_after = history[i].gen_after)
    /\ \A s \in DbFiles :
           Cardinality({i \in 1..Len(history) :
               history[i].path = s /\ history[i].calls = 1 /\ ~history[i].raised}) <= 1

\* A path that started absent was created by one execution and then executed
\* again.
C7_Witness ==
    \E i, j \in 1..Len(history) :
        /\ i < j /\ FirstOnAbsent(i) /\ history[j].path = history[i].path
        /\ history[i].calls = 1 /\ ~history[i].raised
        /\ history[j].calls = 0

\* C8: when the target file is absent, execute makes exactly one creation
\* call, with confirm=True and the configuration record built from the node's
\* parameters, each toggle deciding its own field only.
C8_CreationCallConfig ==
    (ret.node = "init.execute" /\ LastRun.gen_before = 0) =>
        /\ Len(ret.initdb_calls) = 1
        /\ LET call == ret.initdb_calls[1]
               c == call.config
           IN /\ call.confirm = TRUE
              /\ DOMAIN c = {"dbname", "dbtype", "standardization", "removeHs",
                             "useTautomerHashv2", "registerConformers",
                             "numConformerDigits", "lwregSchema"}
              /\ c.dbname = ret.path
              /\ c.dbtype = "sqlite3"
              /\ c.standardization[1] = ret.op
              /\ Len(c.standardization) = IF ret.canonical_orientation THEN 2 ELSE 1
              /\ ret.canonical_orientation => c.standardization[2] = "canonicalize"
              /\ c.removeHs = (IF ret.remove_Hs THEN 1 ELSE 0)
              /\ c.registerConformers = (IF ret.conformer_mode THEN 1 ELSE 0)
              /\ c.useTautomerHashv2 = 0
              /\ c.numConformerDigits = 3
              /\ c.lwregSchema = ""

\* A creation call with the three toggles set differently from each other.
C8_Witness ==
    /\ ret.node = "init.execute"
    /\ LastRun.gen_before = 0
    /\ Len(ret.initdb_calls) = 1
    /\ ret.kind = "return"
    /\ ret.canonical_orientation /\ ~ret.remove_Hs /\ ret.conformer_mode
    /\ ret.op = "tautomer"

\* C9: after every Initializer execution that returns without error, the
\* flow variable lwreg_db_path equals the configured path.
C9_PublishesPathOnSuccess ==
    (ret.node = "init.execute" /\ ret.kind = "return") =>
        /\ "lwreg_db_path" \in DOMAIN flow_variables
        /\ flow_variables["lwreg_db_path"] = ret.path

\* C20: when utils._initdb raises, execute raises without having caught the
\* exception, and the execution leaves the flow variables as they were:
\* lwreg_db_path is set only by an execution whose creation call returned.
C20_PublishesOnlyAfterCreation ==
    [][(history' # history /\ ret'.kind = "raise") =>
           /\ Len(ret'.initdb_calls) = 1
           /\ ret'.initdb_calls[1].outcome # "ok"
           /\ flow_variables' = flow_variables]_vars

-----------------------------------------------------------------------------
(* Output schema properties *)

\* C19: a table returned by the execute of the Registrar, the Querier or the
\* Retriever has the three columns of the node's configure, in that order,
\* also for an empty input table, an empty match list, an empty mapping.
C19_ReturnedTableHasDeclaredColumns ==
    /\ (ret.node = "register.execute" /\ ret.kind = "table") =>
           ret.table.columns = RegisterSchema
    /\ (ret.node = "query.execute" /\ ret.kind = "table") =>
           ret.table.columns = QuerySchema
    /\ (ret.node = "retrieve.execute" /\ ret.kind = "table") =>
           ret.table.columns = RetrieveSchema

====
